---- MODULE Spec2Model ----
(***************************************************************************)
(* A model of NBAStatsGetter (src/nbastats.py) and of the parts of the     *)
(* Limnoria plugin (src/plugin.py) that call it.                           *)
(*                                                                         *)
(* Python values are modelled as follows.  A dict is a set of <<key,       *)
(* value>> pairs with pairwise distinct keys.  An attribute that is either *)
(* None or a dict is a record [none |-> BOOLEAN, d |-> dict].  A JSON      *)
(* list is a sequence, a JSON object a record.  An exception is the name   *)
(* of its Python class.                                                    *)
(***************************************************************************)
EXTENDS Integers, Sequences, FiniteSets, TLC

VARIABLES
    self_person_ids,            \* self._person_ids
    self_team_ids_to_tricodes,  \* self._team_ids_to_tricodes
    self_team_tricodes_to_ids,  \* self._team_tricodes_to_ids
    http_cache,                 \* the CacheControl store of the requests session, per endpoint
    pc,                         \* per thread: the statement it is about to execute
    json,                       \* per thread: local json of the identifier-cache method
    from_cache,                 \* per thread: local from_cache
    tricode_to_ids,             \* per thread: local tricode_to_ids
    ids_to_tricodes,            \* per thread: local ids_to_tricodes
    person_ids,                 \* per thread: local person_ids
    idx,                        \* per thread: position of the for loop in json
    ret,                        \* per thread: the dictionary handed to the caller
    call,                       \* the call in progress or last finished, when calls run one at a time
    stat_order                  \* the order in which this process iterates over _STAT_CATEGORIES

vars == <<self_person_ids, self_team_ids_to_tricodes, self_team_tricodes_to_ids,
          http_cache, pc, json, from_cache, tricode_to_ids, ids_to_tricodes,
          person_ids, idx, ret, call, stat_order>>

cacheVars == <<self_person_ids, self_team_ids_to_tricodes, self_team_tricodes_to_ids,
               http_cache>>

threadVars == <<pc, json, from_cache, tricode_to_ids, ids_to_tricodes,
                person_ids, idx, ret>>

processVars == <<stat_order>>

-----------------------------------------------------------------------------
(* Python values *)

NoneValue == [none |-> TRUE, d |-> {}]

Some(d) == [none |-> FALSE, d |-> d]

DictHas(d, k) == \E p \in d : p[1] = k

DictGet(d, k) == (CHOOSE p \in d : p[1] = k)[2]

\* d[k] = v
DictPut(d, k, v) == {p \in d : p[1] # k} \cup {<<k, v>>}

SeqsUpTo(S, n) == UNION {[1..k -> S] : k \in 0..n}

-----------------------------------------------------------------------------
(* Program constants *)

TEAM_TRICODES ==
    {"CHA", "ATL", "IND", "MEM", "DET", "UTA", "CHI", "TOR", "CLE", "OKC",
     "DAL", "MIN", "BOS", "SAS", "MIA", "DEN", "LAL", "PHX", "NOP", "MIL",
     "HOU", "NYK", "ORL", "SAC", "PHI", "BKN", "POR", "GSW", "LAC", "WAS"}

\* the categories of _STAT_CATEGORIES in the order the source lists them
StatCategoriesAsWritten ==
    <<"ppg", "trpg", "apg", "fgp", "ftp", "tpp", "bpg", "spg", "tpg", "pfpg">>

STAT_CATEGORIES == {StatCategoriesAsWritten[i] : i \in 1..Len(StatCategoriesAsWritten)}

-----------------------------------------------------------------------------
(* Upstream documents *)

MaxTeamEntries == 2

\* Entries of the team list: two franchises, one of them under either of two
\* ids, and the all-star team "EST", which is not a franchise.
TeamEntries ==
    {[tricode |-> "LAL", teamId |-> 1, isNBAFranchise |-> TRUE],
     [tricode |-> "GSW", teamId |-> 1, isNBAFranchise |-> TRUE],
     [tricode |-> "GSW", teamId |-> 2, isNBAFranchise |-> TRUE],
     [tricode |-> "EST", teamId |-> 2, isNBAFranchise |-> FALSE]}

\* json['league']['standard'] of the team list
TeamDocs == SeqsUpTo(TeamEntries, MaxTeamEntries)

TeamDocA ==
    <<[tricode |-> "LAL", teamId |-> 1, isNBAFranchise |-> TRUE],
      [tricode |-> "GSW", teamId |-> 2, isNBAFranchise |-> TRUE]>>

TeamDocB ==
    <<[tricode |-> "LAL", teamId |-> 2, isNBAFranchise |-> TRUE],
      [tricode |-> "EST", teamId |-> 2, isNBAFranchise |-> FALSE]>>

\* json['league']['standard'] of the player list
PlayerDocA ==
    <<[personId |-> 1, firstName |-> "LeBron", lastName |-> "James"],
      [personId |-> 2, firstName |-> "Nene", lastName |-> ""]>>

PlayerDocB ==
    <<[personId |-> 2, firstName |-> "Nene", lastName |-> ""]>>

PlayerDocs == {PlayerDocA, PlayerDocB}

\* The documents the origin serves while several threads are running.
ThreadTeamDocs == {TeamDocA, TeamDocB}

Endpoints == {"teams", "leagueRosterPlayers"}

-----------------------------------------------------------------------------
(* _getJSON: the outcomes of one GET through the caching session.  A       *)
(* response served from the store carries its body and from_cache = True;  *)
(* a response from the origin carries any document and is stored.          *)

GetJSONOutcomes(endpoint, docs) ==
    (IF http_cache[endpoint].none
     THEN {}
     ELSE {[json |-> http_cache[endpoint].body, from_cache |-> TRUE,
            store |-> http_cache[endpoint]]})
    \cup
    {[json |-> d, from_cache |-> FALSE, store |-> [none |-> FALSE, body |-> d]] :
        d \in docs}

-----------------------------------------------------------------------------
(* The bodies of the two rebuild loops *)

\* one iteration of the loop of _updateTeamDictionaries on tricode_to_ids
TeamLoopTricodeToIds(d, team) ==
    IF team.isNBAFranchise THEN DictPut(d, team.tricode, team.teamId) ELSE d

\* every iteration of the team loop keeps the non-franchise entries too
TeamLoopIdsToTricodes_NoFilter(d, team) == DictPut(d, team.teamId, team.tricode)

\* one iteration of the loop of _updateTeamDictionaries on ids_to_tricodes
TeamLoopIdsToTricodes(d, team) ==
    IF team.isNBAFranchise THEN DictPut(d, team.teamId, team.tricode) ELSE d

\* one iteration of the loop of _fetchPersonIDdict
PersonLoop(d, player) ==
    DictPut(d, player.personId, <<player.firstName, player.lastName>>)

RECURSIVE BuildTricodeToIds(_, _)
\* the first n iterations of the team loop, from an empty dict
BuildTricodeToIds(doc, n) ==
    IF n = 0 THEN {}
    ELSE TeamLoopTricodeToIds(BuildTricodeToIds(doc, n - 1), doc[n])

RECURSIVE BuildIdsToTricodes(_, _)
BuildIdsToTricodes(doc, n) ==
    IF n = 0 THEN {}
    ELSE TeamLoopIdsToTricodes(BuildIdsToTricodes(doc, n - 1), doc[n])

RECURSIVE BuildPersonIds(_, _)
BuildPersonIds(doc, n) ==
    IF n = 0 THEN {}
    ELSE PersonLoop(BuildPersonIds(doc, n - 1), doc[n])

-----------------------------------------------------------------------------
(* The threaded host: each command runs on its own thread, and every       *)
(* thread calls into the one NBAStatsGetter of the plugin.                 *)

Threads == {"t1", "t2"}

\* ret[t]: which dictionary the thread's last finished call handed back
NoReturn == [of |-> "none", value |-> NoneValue]

InitCaches ==
    /\ self_person_ids = NoneValue
    /\ self_team_ids_to_tricodes = NoneValue
    /\ self_team_tricodes_to_ids = NoneValue
    /\ http_cache = [e \in Endpoints |-> [none |-> TRUE, body |-> <<>>]]

InitThreads ==
    /\ pc = [t \in Threads |-> "idle"]
    /\ json = [t \in Threads |-> <<>>]
    /\ from_cache = [t \in Threads |-> FALSE]
    /\ tricode_to_ids = [t \in Threads |-> {}]
    /\ ids_to_tricodes = [t \in Threads |-> {}]
    /\ person_ids = [t \in Threads |-> {}]
    /\ idx = [t \in Threads |-> 0]
    /\ ret = [t \in Threads |-> NoReturn]

Init ==
    /\ InitCaches
    /\ InitThreads
    /\ call = [op |-> "none", tricode |-> "", id |-> 0, outcome |-> "none",
               from_cache |-> FALSE, rebuilt |-> FALSE]
    /\ stat_order = StatCategoriesAsWritten

\* _updateTeamDictionaries, line 343: the fetch of the team list
TeamFetch(t) ==
    /\ pc[t] = "idle"
    /\ \E r \in GetJSONOutcomes("teams", ThreadTeamDocs) :
          /\ json' = [json EXCEPT ![t] = r.json]
          /\ from_cache' = [from_cache EXCEPT ![t] = r.from_cache]
          /\ http_cache' = [http_cache EXCEPT !["teams"] = r.store]
    /\ pc' = [pc EXCEPT ![t] = "team_check"]
    /\ ret' = [ret EXCEPT ![t] = NoReturn]
    /\ UNCHANGED <<self_person_ids, self_team_ids_to_tricodes,
                   self_team_tricodes_to_ids, tricode_to_ids, ids_to_tricodes,
                   person_ids, idx, call, processVars>>

\* the condition of the if of lines 347-348, for a given from_cache
TeamCopyIsValidFor(fc) ==
    /\ fc
    /\ ~self_team_tricodes_to_ids.none
    /\ ~self_team_ids_to_tricodes.none

\* a slip in the None tests of lines 347-348: "is None" for "is not None"
TeamCopyIsValid_NoneTestInverted(t) ==
    /\ from_cache[t]
    /\ self_team_tricodes_to_ids.none
    /\ self_team_ids_to_tricodes.none

\* the condition of the if of lines 347-348
TeamCopyIsValid(t) == TeamCopyIsValidFor(from_cache[t])

\* lines 347-353: return the parsed copy, or start the rebuild with two empty dicts
TeamCheck(t) ==
    /\ pc[t] = "team_check"
    /\ IF TeamCopyIsValid(t)
       THEN /\ pc' = [pc EXCEPT ![t] = "team_return_valid"]
            /\ UNCHANGED <<tricode_to_ids, ids_to_tricodes, idx>>
       ELSE /\ pc' = [pc EXCEPT ![t] = "team_loop"]
            /\ tricode_to_ids' = [tricode_to_ids EXCEPT ![t] = {}]
            /\ ids_to_tricodes' = [ids_to_tricodes EXCEPT ![t] = {}]
            /\ idx' = [idx EXCEPT ![t] = 1]
    /\ UNCHANGED <<cacheVars, json, from_cache, person_ids, ret, call, processVars>>

\* lines 355-358: one iteration of the for loop
TeamLoop(t) ==
    /\ pc[t] = "team_loop"
    /\ idx[t] <= Len(json[t])
    /\ tricode_to_ids' = [tricode_to_ids EXCEPT
                            ![t] = TeamLoopTricodeToIds(@, json[t][idx[t]])]
    /\ ids_to_tricodes' = [ids_to_tricodes EXCEPT
                            ![t] = TeamLoopIdsToTricodes(@, json[t][idx[t]])]
    /\ idx' = [idx EXCEPT ![t] = @ + 1]
    /\ UNCHANGED <<cacheVars, pc, json, from_cache, person_ids, ret, call, processVars>>

\* line 360, once the loop is over
TeamAssignTricodesToIds(t) ==
    /\ pc[t] = "team_loop"
    /\ idx[t] > Len(json[t])
    /\ self_team_tricodes_to_ids' = Some(tricode_to_ids[t])
    /\ pc' = [pc EXCEPT ![t] = "team_assign_ids_to_tricodes"]
    /\ UNCHANGED <<self_person_ids, self_team_ids_to_tricodes, http_cache,
                   json, from_cache, tricode_to_ids, ids_to_tricodes,
                   person_ids, idx, ret, call, stat_order>>

\* line 361
TeamAssignIdsToTricodes(t) ==
    /\ pc[t] = "team_assign_ids_to_tricodes"
    /\ self_team_ids_to_tricodes' = Some(ids_to_tricodes[t])
    /\ pc' = [pc EXCEPT ![t] = "team_return_rebuilt"]
    /\ UNCHANGED <<self_person_ids, self_team_tricodes_to_ids, http_cache,
                   json, from_cache, tricode_to_ids, ids_to_tricodes,
                   person_ids, idx, ret, call, stat_order>>

TeamReturning(t) == pc[t] \in {"team_return_valid", "team_return_rebuilt"}

ThreadLocalsReset(t) ==
    /\ json' = [json EXCEPT ![t] = <<>>]
    /\ from_cache' = [from_cache EXCEPT ![t] = FALSE]
    /\ tricode_to_ids' = [tricode_to_ids EXCEPT ![t] = {}]
    /\ ids_to_tricodes' = [ids_to_tricodes EXCEPT ![t] = {}]
    /\ person_ids' = [person_ids EXCEPT ![t] = {}]
    /\ idx' = [idx EXCEPT ![t] = 0]

\* _tricodeToTeamIDdict, line 367: the caller's read after the update returned
ReturnTricodesToIds(t) ==
    /\ TeamReturning(t)
    /\ ret' = [ret EXCEPT ![t] = [of |-> "team_tricodes_to_ids",
                                 value |-> self_team_tricodes_to_ids]]
    /\ pc' = [pc EXCEPT ![t] = "idle"]
    /\ ThreadLocalsReset(t)
    /\ UNCHANGED <<cacheVars, call, processVars>>

\* _teamIDtoTricodeDict, line 373
ReturnIdsToTricodes(t) ==
    /\ TeamReturning(t)
    /\ ret' = [ret EXCEPT ![t] = [of |-> "team_ids_to_tricodes",
                                 value |-> self_team_ids_to_tricodes]]
    /\ pc' = [pc EXCEPT ![t] = "idle"]
    /\ ThreadLocalsReset(t)
    /\ UNCHANGED <<cacheVars, call, processVars>>

\* _fetchPersonIDdict, line 377: the fetch of the player list
PersonFetch(t) ==
    /\ pc[t] = "idle"
    /\ \E r \in GetJSONOutcomes("leagueRosterPlayers", PlayerDocs) :
          /\ json' = [json EXCEPT ![t] = r.json]
          /\ from_cache' = [from_cache EXCEPT ![t] = r.from_cache]
          /\ http_cache' = [http_cache EXCEPT !["leagueRosterPlayers"] = r.store]
    /\ pc' = [pc EXCEPT ![t] = "person_check"]
    /\ ret' = [ret EXCEPT ![t] = NoReturn]
    /\ UNCHANGED <<self_person_ids, self_team_ids_to_tricodes,
                   self_team_tricodes_to_ids, tricode_to_ids, ids_to_tricodes,
                   person_ids, idx, call, processVars>>

\* the condition of the if of line 381, for a given from_cache
PersonCopyIsValidFor(fc) ==
    /\ fc
    /\ ~self_person_ids.none

\* the condition of the if of line 381
PersonCopyIsValid(t) == PersonCopyIsValidFor(from_cache[t])

\* lines 381-385
PersonCheck(t) ==
    /\ pc[t] = "person_check"
    /\ IF PersonCopyIsValid(t)
       THEN /\ pc' = [pc EXCEPT ![t] = "person_return_valid"]
            /\ UNCHANGED <<person_ids, idx>>
       ELSE /\ pc' = [pc EXCEPT ![t] = "person_loop"]
            /\ person_ids' = [person_ids EXCEPT ![t] = {}]
            /\ idx' = [idx EXCEPT ![t] = 1]
    /\ UNCHANGED <<cacheVars, json, from_cache, tricode_to_ids,
                   ids_to_tricodes, ret, call, processVars>>

\* line 382: return self._person_ids
PersonReturnValid(t) ==
    /\ pc[t] = "person_return_valid"
    /\ ret' = [ret EXCEPT ![t] = [of |-> "person_ids", value |-> self_person_ids]]
    /\ pc' = [pc EXCEPT ![t] = "idle"]
    /\ ThreadLocalsReset(t)
    /\ UNCHANGED <<cacheVars, call, processVars>>

\* the loop filling self._person_ids in place instead of a local dict
PersonLoopStep_InPlace(t) ==
    /\ pc[t] = "person_loop"
    /\ idx[t] <= Len(json[t])
    /\ person_ids' = [person_ids EXCEPT ![t] = PersonLoop(@, json[t][idx[t]])]
    /\ self_person_ids' = Some(person_ids'[t])
    /\ idx' = [idx EXCEPT ![t] = @ + 1]
    /\ UNCHANGED <<self_team_ids_to_tricodes, self_team_tricodes_to_ids,
                   http_cache, pc, json, from_cache, tricode_to_ids,
                   ids_to_tricodes, ret, call, processVars>>

\* lines 386-388: one iteration of the for loop
PersonLoopStep(t) ==
    /\ pc[t] = "person_loop"
    /\ idx[t] <= Len(json[t])
    /\ person_ids' = [person_ids EXCEPT ![t] = PersonLoop(@, json[t][idx[t]])]
    /\ idx' = [idx EXCEPT ![t] = @ + 1]
    /\ UNCHANGED <<cacheVars, pc, json, from_cache, tricode_to_ids,
                   ids_to_tricodes, ret, call, processVars>>

\* lines 390-391, once the loop is over: publish the dict and return it
PersonAssign(t) ==
    /\ pc[t] = "person_loop"
    /\ idx[t] > Len(json[t])
    /\ self_person_ids' = Some(person_ids[t])
    /\ ret' = [ret EXCEPT ![t] = [of |-> "person_ids",
                                 value |-> Some(person_ids[t])]]
    /\ pc' = [pc EXCEPT ![t] = "idle"]
    /\ ThreadLocalsReset(t)
    /\ UNCHANGED <<self_team_ids_to_tricodes, self_team_tricodes_to_ids,
                   http_cache, call, processVars>>

Next ==
    \E t \in Threads :
        \/ TeamFetch(t)
        \/ TeamCheck(t)
        \/ TeamLoop(t)
        \/ TeamAssignTricodesToIds(t)
        \/ TeamAssignIdsToTricodes(t)
        \/ ReturnTricodesToIds(t)
        \/ ReturnIdsToTricodes(t)
        \/ PersonFetch(t)
        \/ PersonCheck(t)
        \/ PersonReturnValid(t)
        \/ PersonLoopStep(t)
        \/ PersonAssign(t)

Spec == Init /\ [][Next]_vars

-----------------------------------------------------------------------------
(* Identifier caches under concurrent callers *)

TeamMappingsUnchanged ==
    /\ self_team_tricodes_to_ids' = self_team_tricodes_to_ids
    /\ self_team_ids_to_tricodes' = self_team_ids_to_tricodes

\* C1: a call whose fetch reports from_cache = True while the mapping exists
\* does not rebuild: from the test of the if it goes straight to the return,
\* never into the rebuild loop, and none of its steps changes a stored mapping.
C1_NoRebuildOnCacheHit ==
    [][\A t \in Threads :
        /\ (/\ pc[t] = "team_check"
            /\ from_cache[t]
            /\ ~self_team_tricodes_to_ids.none
            /\ ~self_team_ids_to_tricodes.none
            /\ pc'[t] # pc[t])
           => (pc'[t] = "team_return_valid" /\ TeamMappingsUnchanged)
        /\ (pc[t] = "team_return_valid" /\ pc'[t] # pc[t])
           => (pc'[t] = "idle" /\ TeamMappingsUnchanged)
        /\ (/\ pc[t] = "person_check"
            /\ from_cache[t]
            /\ ~self_person_ids.none
            /\ pc'[t] # pc[t])
           => (pc'[t] = "person_return_valid" /\ self_person_ids' = self_person_ids)
        /\ (pc[t] = "person_return_valid" /\ pc'[t] # pc[t])
           => (pc'[t] = "idle" /\ self_person_ids' = self_person_ids)]_vars

\* Both caches have answered a cache hit from the existing mapping.
C1_Witness ==
    \E t, u \in Threads :
        /\ pc[t] = "team_return_valid"
        /\ from_cache[t]
        /\ pc[u] = "person_return_valid"
        /\ from_cache[u]

\* the two team mappings as one document gives them
TeamMappingsOf(d) ==
    /\ self_team_tricodes_to_ids = Some(BuildTricodeToIds(d, Len(d)))
    /\ self_team_ids_to_tricodes = Some(BuildIdsToTricodes(d, Len(d)))

\* C2: in every state the two stored team mappings are both None or both
\* built from one and the same fetched document.
C2_TeamMappingsFromSameFetch ==
    \/ (self_team_tricodes_to_ids.none /\ self_team_ids_to_tricodes.none)
    \/ \E d \in ThreadTeamDocs : TeamMappingsOf(d)

CompleteTricodesToIds == {Some(BuildTricodeToIds(d, Len(d))) : d \in ThreadTeamDocs}

CompleteIdsToTricodes == {Some(BuildIdsToTricodes(d, Len(d))) : d \in ThreadTeamDocs}

CompletePersonIds == {Some(BuildPersonIds(d, Len(d))) : d \in PlayerDocs}

\* C3: each stored mapping, and each mapping handed to a caller, is the
\* complete mapping of one fetched document (or None before the first
\* rebuild), whatever the other threads are doing.
C3_ReadsSeeCompleteMappings ==
    /\ self_person_ids.none \/ self_person_ids \in CompletePersonIds
    /\ self_team_tricodes_to_ids.none
          \/ self_team_tricodes_to_ids \in CompleteTricodesToIds
    /\ self_team_ids_to_tricodes.none
          \/ self_team_ids_to_tricodes \in CompleteIdsToTricodes
    /\ \A t \in Threads :
          /\ ret[t].of = "person_ids" => ret[t].value \in CompletePersonIds
          /\ ret[t].of = "team_tricodes_to_ids"
                => ret[t].value \in CompleteTricodesToIds
          /\ ret[t].of = "team_ids_to_tricodes"
                => ret[t].value \in CompleteIdsToTricodes

\* A caller holds the mapping it read while another thread is half-way
\* through the rebuild loop, with a different, partial dict in hand.
C3_Witness ==
    \E t, u \in Threads :
        /\ t # u
        /\ pc[t] = "person_loop"
        /\ idx[t] > 1
        /\ idx[t] <= Len(json[t])
        /\ ret[u].of = "person_ids"
        /\ ret[u].value # Some(person_ids[t])
    
\* C4: once two calls that both rebuilt the team cache have finished, both
\* stored team mappings are the mappings of one single fetched document.
C4_ConcurrentRebuildsConverge ==
    (\A t \in Threads : pc[t] = "team_return_rebuilt")
        => \E d \in ThreadTeamDocs : TeamMappingsOf(d)

-----------------------------------------------------------------------------
(* The identifier lookups, one call at a time *)

\* a rebuild that replaces tricode -> id and keeps an existing id -> tricode
UpdateTeamDictionaries_StaleInverse(r) ==
    /\ http_cache' = [http_cache EXCEPT !["teams"] = r.store]
    /\ IF TeamCopyIsValidFor(r.from_cache)
       THEN UNCHANGED <<self_team_tricodes_to_ids, self_team_ids_to_tricodes>>
       ELSE /\ self_team_tricodes_to_ids' =
                   Some(BuildTricodeToIds(r.json, Len(r.json)))
            /\ self_team_ids_to_tricodes' =
                   IF self_team_ids_to_tricodes.none
                   THEN Some(BuildIdsToTricodes(r.json, Len(r.json)))
                   ELSE self_team_ids_to_tricodes

\* _updateTeamDictionaries as one step, for the outcome r of its fetch
UpdateTeamDictionaries(r) ==
    /\ http_cache' = [http_cache EXCEPT !["teams"] = r.store]
    /\ IF TeamCopyIsValidFor(r.from_cache)
       THEN UNCHANGED <<self_team_tricodes_to_ids, self_team_ids_to_tricodes>>
       ELSE /\ self_team_tricodes_to_ids' =
                   Some(BuildTricodeToIds(r.json, Len(r.json)))
            /\ self_team_ids_to_tricodes' =
                   Some(BuildIdsToTricodes(r.json, Len(r.json)))

\* _fetchPersonIDdict as one step, for the outcome r of its fetch
FetchPersonIDdict(r) ==
    /\ http_cache' = [http_cache EXCEPT !["leagueRosterPlayers"] = r.store]
    /\ IF PersonCopyIsValidFor(r.from_cache)
       THEN UNCHANGED self_person_ids
       ELSE self_person_ids' = Some(BuildPersonIds(r.json, Len(r.json)))

\* _teamID(team_tricode), through _tricodeToTeamIDdict
TeamID(team_tricode) ==
    \E r \in GetJSONOutcomes("teams", TeamDocs) :
        /\ UpdateTeamDictionaries(r)
        /\ call' = [op |-> "_teamID", tricode |-> team_tricode,
                    id |-> IF DictHas(self_team_tricodes_to_ids'.d, team_tricode)
                           THEN DictGet(self_team_tricodes_to_ids'.d, team_tricode)
                           ELSE 0,
                    outcome |-> IF DictHas(self_team_tricodes_to_ids'.d, team_tricode)
                                THEN "ok" ELSE "KeyError",
                    from_cache |-> r.from_cache,
                    rebuilt |-> ~TeamCopyIsValidFor(r.from_cache)]
        /\ UNCHANGED <<self_person_ids, threadVars, processVars>>

\* _teamTricode(team_id), through _teamIDtoTricodeDict
TeamTricode(team_id) ==
    \E r \in GetJSONOutcomes("teams", TeamDocs) :
        /\ UpdateTeamDictionaries(r)
        /\ call' = [op |-> "_teamTricode", id |-> team_id,
                    tricode |-> IF DictHas(self_team_ids_to_tricodes'.d, team_id)
                                THEN DictGet(self_team_ids_to_tricodes'.d, team_id)
                                ELSE "",
                    outcome |-> IF DictHas(self_team_ids_to_tricodes'.d, team_id)
                                THEN "ok" ELSE "KeyError",
                    from_cache |-> r.from_cache,
                    rebuilt |-> ~TeamCopyIsValidFor(r.from_cache)]
        /\ UNCHANGED <<self_person_ids, threadVars, processVars>>

\* playerFullName(person_id)
PlayerFullName(person_id) ==
    \E r \in GetJSONOutcomes("leagueRosterPlayers", PlayerDocs) :
        /\ FetchPersonIDdict(r)
        /\ call' = [op |-> "playerFullName", id |-> person_id, tricode |-> "",
                    outcome |-> IF DictHas(self_person_ids'.d, person_id)
                                THEN "ok" ELSE "KeyError",
                    from_cache |-> r.from_cache,
                    rebuilt |-> ~PersonCopyIsValidFor(r.from_cache)]
        /\ UNCHANGED <<self_team_tricodes_to_ids, self_team_ids_to_tricodes,
                       threadVars, processVars>>

NextIds ==
    \/ \E team_tricode \in {"LAL", "GSW", "BOS"} : TeamID(team_tricode)
    \/ \E team_id \in {1, 2, 3} : TeamTricode(team_id)
    \/ \E person_id \in {1, 2, 3} : PlayerFullName(person_id)

SpecIds == Init /\ [][NextIds]_vars

TeamCall(c) == c.op \in {"_teamID", "_teamTricode"}

\* the franchise entries of a team list
FranchiseEntries(doc) == {doc[i] : i \in {j \in 1..Len(doc) : doc[j].isNBAFranchise}}

\* no two franchise entries of the document share a team id
DistinctFranchiseIds(doc) ==
    \A i, j \in 1..Len(doc) :
        (doc[i].isNBAFranchise /\ doc[j].isNBAFranchise
            /\ doc[i].teamId = doc[j].teamId) => doc[i].tricode = doc[j].tricode

\* _teamTricode is called with the id that the _teamID call before it returned
RoundTripStep ==
    /\ call.op = "_teamID"
    /\ call.tricode \in TEAM_TRICODES
    /\ call.outcome = "ok"
    /\ call'.op = "_teamTricode"
    /\ call'.id = call.id

\* C5 as stated: for any team list and any cache outcome the round trip of a
\* valid tricode returns the tricode.
C5_RoundTripAnyDocument ==
    [][RoundTripStep => (call'.outcome = "ok" /\ call'.tricode = call.tricode)]_vars

\* C5, amended: the round trip returns the tricode when both fetches deliver
\* the same team list and no two franchise entries of it share a team id,
\* for either cache outcome of the two fetches.
C5_RoundTripSameDocument ==
    [][(/\ RoundTripStep
        /\ http_cache'["teams"] = http_cache["teams"]
        /\ DistinctFranchiseIds(http_cache["teams"].body))
       => (call'.outcome = "ok" /\ call'.tricode = call.tricode)]_vars

\* A round trip has been made on one document with distinct franchise ids
\* (here with the second fetch a cache miss) and has returned the tricode.
C5_Witness ==
    /\ call.op = "_teamTricode"
    /\ call.outcome = "ok"
    /\ call.tricode = "GSW"
    /\ ~call.from_cache
    /\ DistinctFranchiseIds(http_cache["teams"].body)
    /\ Len(http_cache["teams"].body) = 2
    /\ self_team_tricodes_to_ids = Some({<<"GSW", call.id>>, <<"LAL", 3 - call.id>>})

FromFranchiseEntries(doc) ==
    /\ \A p \in self_team_tricodes_to_ids'.d :
          \E e \in FranchiseEntries(doc) : e.tricode = p[1] /\ e.teamId = p[2]
    /\ \A p \in self_team_ids_to_tricodes'.d :
          \E e \in FranchiseEntries(doc) : e.teamId = p[1] /\ e.tricode = p[2]

-----------------------------------------------------------------------------
(* Tricode arguments *)

\* str.upper() on the arguments the callers below pass: only the letters
\* a-z change
Upper(s) ==
    CASE s = "lal" -> "LAL"
      [] s = "Gsw" -> "GSW"
      [] s = "bos" -> "BOS"
      [] s = "xxx" -> "XXX"
      [] OTHER -> s

\* _isTriCodeValid(ttt)
IsTriCodeValid(ttt) == Upper(ttt) \in TEAM_TRICODES

-----------------------------------------------------------------------------
(* teamLeaders *)

MaxHashSeed == 2

\* Iterating over a frozenset of str visits its elements in hash order, which
\* is fixed for one process and differs between processes (str hashes are
\* seeded per process).  The orders considered are the rotations of the
\* written order; seed 0 is the written order itself.
SetIterationOrders ==
    {[i \in 1..Len(StatCategoriesAsWritten) |->
        StatCategoriesAsWritten[((i - 1 + seed) % Len(StatCategoriesAsWritten)) + 1]] :
     seed \in 0..MaxHashSeed}

LeadersListA ==
    <<[personId |-> 1, value |-> "25.3"], [personId |-> 2, value |-> "20.1"]>>

LeadersListB == <<[personId |-> 2, value |-> "9.9"]>>

\* json['league']['standard'] of the team-leaders document: per category the
\* ranked list of players.  The last document has an empty list.
LeadersDocs ==
    {[c \in STAT_CATEGORIES |-> IF c \in S THEN LeadersListA ELSE LeadersListB] :
        S \in {{}, {"ppg", "trpg", "apg"}, STAT_CATEGORIES}}
    \cup {[c \in STAT_CATEGORIES |-> IF c = "tpg" THEN <<>> ELSE LeadersListA]}

NoLeadersCall ==
    [op |-> "none", stage |-> "done", team |-> "", outcome |-> "none",
     json |-> [c \in STAT_CATEGORIES |-> <<>>], leaders |-> <<>>]

InitLeaders ==
    /\ InitCaches
    /\ InitThreads
    /\ call = NoLeadersCall
    /\ stat_order \in SetIterationOrders

LeadersRaise(team, exception) ==
    [NoLeadersCall EXCEPT !.op = "teamLeaders", !.team = team, !.outcome = exception]

\* teamLeaders(team), lines 94-97 and 223-226: _parseTeamTricode, _teamID with
\* the outcome r of its fetch, _fetchTeamLeaders returning leaders_json, and
\* the start of _extractTeamLeaders
TeamLeaders(team, r, leaders_json) ==
    /\ call.stage = "done"
    /\ IF ~IsTriCodeValid(Upper(team))
       THEN /\ call' = LeadersRaise(team, "ValueError: Invalid team value")
            /\ UNCHANGED <<self_team_tricodes_to_ids, self_team_ids_to_tricodes,
                           http_cache>>
       ELSE /\ UpdateTeamDictionaries(r)
            /\ call' = IF DictHas(self_team_tricodes_to_ids'.d, Upper(team))
                       THEN [op |-> "teamLeaders", stage |-> "running",
                             team |-> team, outcome |-> "none",
                             json |-> leaders_json, leaders |-> <<>>]
                       ELSE LeadersRaise(team, "KeyError: team_tricode")
    /\ UNCHANGED <<self_person_ids, threadVars, processVars>>

\* _extractTeamLeaders, lines 228-238: one iteration of the loop over
\* self.statCategories(), with its call of playerFullName (r: the outcome of
\* the fetch of the player list); the last iteration returns the list
ExtractTeamLeadersLoop(r) ==
    /\ call.op = "teamLeaders"
    /\ call.stage = "running"
    /\ LET category == stat_order[Len(call.leaders) + 1]
           players == call.json[category]
       IN  IF players = <<>>
           THEN /\ call' = [call EXCEPT !.stage = "done", !.outcome = "IndexError"]
                /\ UNCHANGED <<self_person_ids, http_cache>>
           ELSE /\ FetchPersonIDdict(r)
                /\ IF DictHas(self_person_ids'.d, players[1].personId)
                   THEN LET leaders ==
                                Append(call.leaders,
                                       [category |-> category,
                                        player_name |->
                                            DictGet(self_person_ids'.d,
                                                    players[1].personId),
                                        value |-> players[1].value])
                            last == Len(leaders) = Len(stat_order)
                        IN  call' = [call EXCEPT
                                        !.leaders = leaders,
                                        !.stage = IF last THEN "done" ELSE "running",
                                        !.outcome = IF last THEN "ok" ELSE "none"]
                   ELSE call' = [call EXCEPT !.stage = "done", !.outcome = "KeyError: person_id"]
    /\ UNCHANGED <<self_team_tricodes_to_ids, self_team_ids_to_tricodes,
                   threadVars, processVars>>

NextLeaders ==
    \/ \E team \in {"LAL", "lal", "BOS", "XXX"}, leaders_json \in LeadersDocs :
          \E r \in GetJSONOutcomes("teams", ThreadTeamDocs) :
              TeamLeaders(team, r, leaders_json)
    \/ \E r \in GetJSONOutcomes("leagueRosterPlayers", PlayerDocs) :
          ExtractTeamLeadersLoop(r)

SpecLeaders == InitLeaders /\ [][NextLeaders]_vars

\* C7: a finished team-leaders extraction returns ten entries, the i-th for
\* the i-th category of ppg, trpg, apg, fgp, ftp, tpp, bpg, spg, tpg, pfpg,
\* with the value of the first player of that category's list.
C7_TeamLeadersInCategoryOrder ==
    (call.op = "teamLeaders" /\ call.stage = "done" /\ call.outcome = "ok")
        => /\ Len(call.leaders) = Len(StatCategoriesAsWritten)
           /\ \A i \in 1..Len(call.leaders) :
                 /\ call.leaders[i].category = StatCategoriesAsWritten[i]
                 /\ call.leaders[i].value =
                        call.json[StatCategoriesAsWritten[i]][1].value

-----------------------------------------------------------------------------
(* Today's scoreboard: isTeamPlaying and gameLeaders *)

MaxGames == 2

TeamDocC ==
    <<[tricode |-> "LAL", teamId |-> 1, isNBAFranchise |-> TRUE],
      [tricode |-> "GSW", teamId |-> 2, isNBAFranchise |-> TRUE],
      [tricode |-> "BOS", teamId |-> 3, isNBAFranchise |-> TRUE]>>

\* one entry of json['games']
Game(gameId, hTri, hId, vTri, vId, current, statusNum) ==
    [gameId |-> gameId,
     hTeam |-> [triCode |-> hTri, teamId |-> hId],
     vTeam |-> [triCode |-> vTri, teamId |-> vId],
     startDateEastern |-> "20170101",
     period |-> [current |-> current],
     statusNum |-> statusNum,
     nugget |-> [text |-> ""]]

\* BOS at MIA not yet started; GSW at LAL in its second period; GSW at LAL
\* over after four periods (statusNum 3)
GameEntries ==
    {Game("g1", "MIA", 4, "BOS", 3, 0, 1),
     Game("g2", "LAL", 1, "GSW", 2, 2, 2),
     Game("g3", "LAL", 1, "GSW", 2, 4, 3)}

\* json['games'] of the scoreboard
ScoreboardDocs == SeqsUpTo(GameEntries, MaxGames)

LeadersOf(points, rebounds, assists) ==
    [points |-> [players |-> [i \in 1..Len(points) |-> [personId |-> points[i]]],
                 value |-> "30"],
     rebounds |-> [players |-> [i \in 1..Len(rebounds) |-> [personId |-> rebounds[i]]],
                   value |-> "10"],
     assists |-> [players |-> [i \in 1..Len(assists) |-> [personId |-> assists[i]]],
                  value |-> "8"]]

BoxScore(hLeaders, vLeaders) ==
    [basicGameData |-> [hTeam |-> [triCode |-> "LAL"], vTeam |-> [triCode |-> "GSW"]],
     stats |-> [hTeam |-> [leaders |-> hLeaders], vTeam |-> [leaders |-> vLeaders]]]

\* the box score of a game: in the first, two players tie for the away
\* team's points
BoxScoreDocs ==
    {BoxScore(LeadersOf(<<1>>, <<1>>, <<2>>), LeadersOf(<<2, 1>>, <<2>>, <<2>>)),
     BoxScore(LeadersOf(<<2>>, <<2>>, <<2>>), LeadersOf(<<2>>, <<2>>, <<2>>))}

\* _extractGamesFromScoreboard: the game_info of one entry of json['games']
GameInfo(g) ==
    [game_id |-> g.gameId,
     home_team |-> g.hTeam.triCode,
     home_team_id |-> g.hTeam.teamId,
     away_team |-> g.vTeam.triCode,
     away_team_id |-> g.vTeam.teamId,
     start_date |-> g.startDateEastern,
     period |-> g.period,
     ended |-> (g.statusNum = 3),
     text_nugget |-> g.nugget.text]

\* _extractGamesFromScoreboard(json)
ExtractGamesFromScoreboard(games) == [i \in 1..Len(games) |-> GameInfo(games[i])]

\* a game counts as in progress only while it is not over
IsGameInProgress_NotFinal(game) == game.period.current # 0 /\ ~game.ended

\* _isGameInProgress(game)
IsGameInProgress(game) == game.period.current # 0

RECURSIVE SelectSeq2(_, _)
\* [g for g in games if self._isGameInProgress(g)], from the last game back
SelectSeq2(games, n) ==
    IF n = 0 THEN <<>>
    ELSE IF IsGameInProgress(games[n])
         THEN Append(SelectSeq2(games, n - 1), games[n])
         ELSE SelectSeq2(games, n - 1)

\* _getGamesInProgress(games)
GetGamesInProgress(games) == SelectSeq2(games, Len(games))

\* a search that looks at the home team only
FindGameInProgress_HomeOnly(scoreboard, team_id) ==
    LET games == GetGamesInProgress(ExtractGamesFromScoreboard(scoreboard))
        hits == {i \in 1..Len(games) : games[i].home_team_id = team_id}
    IN  IF hits = {} THEN <<>>
        ELSE <<games[CHOOSE i \in hits : \A j \in hits : i <= j]>>

\* _findGameInProgress(team_id) on the fetched scoreboard: <<>> for None,
\* else the first game in progress with the team at home or away
FindGameInProgress(scoreboard, team_id) ==
    LET games == GetGamesInProgress(ExtractGamesFromScoreboard(scoreboard))
        hits == {i \in 1..Len(games) :
                    \/ games[i].home_team_id = team_id
                    \/ games[i].away_team_id = team_id}
    IN  IF hits = {} THEN <<>>
        ELSE <<games[CHOOSE i \in hits : \A j \in hits : i <= j]>>

NoGamesCall ==
    [op |-> "none", stage |-> "done", team |-> "", outcome |-> "none",
     team_id |-> 0, scoreboard |-> <<>>, game |-> <<>>, playing |-> FALSE,
     box_score |-> BoxScore(LeadersOf(<<>>, <<>>, <<>>), LeadersOf(<<>>, <<>>, <<>>)),
     names |-> <<>>, final |-> FALSE]

InitGames ==
    /\ InitCaches
    /\ InitThreads
    /\ call = NoGamesCall
    /\ stat_order = StatCategoriesAsWritten

\* isTeamPlaying(team): _teamID with the outcome r of its fetch, then
\* _findGameInProgress on the fetched scoreboard
IsTeamPlaying(team, r, scoreboard) ==
    /\ call.stage = "done"
    /\ UpdateTeamDictionaries(r)
    /\ IF ~DictHas(self_team_tricodes_to_ids'.d, team)
       THEN call' = [NoGamesCall EXCEPT !.op = "isTeamPlaying", !.team = team,
                                        !.outcome = "KeyError: team_tricode"]
       ELSE LET team_id == DictGet(self_team_tricodes_to_ids'.d, team)
                game == FindGameInProgress(scoreboard, team_id)
            IN  call' = [NoGamesCall EXCEPT
                            !.op = "isTeamPlaying", !.team = team, !.outcome = "ok",
                            !.team_id = team_id, !.scoreboard = scoreboard,
                            !.game = game, !.playing = (game # <<>>)]
    /\ UNCHANGED <<self_person_ids, threadVars, processVars>>

\* the person ids of one side of the box score, in the order in which
\* _extractGameLeadersStats resolves them
SideIds(box_score, side) ==
    LET l == box_score.stats[side].leaders
        ids(c) == [i \in 1..Len(l[c].players) |-> l[c].players[i].personId]
    IN  ids("points") \o ids("rebounds") \o ids("assists")

\* home first, then away (lines 185-186)
LeaderIds(box_score) == SideIds(box_score, "hTeam") \o SideIds(box_score, "vTeam")

\* gameLeaders(team), lines 113-121: _parseTeamTricode, _teamID,
\* _findGameInProgress, and the fetch of the box score
GameLeaders(team, r, scoreboard, box_score) ==
    /\ call.stage = "done"
    /\ IF ~IsTriCodeValid(Upper(team))
       THEN /\ call' = [NoGamesCall EXCEPT !.op = "gameLeaders", !.team = team,
                                           !.outcome = "ValueError: Invalid team value"]
            /\ UNCHANGED <<self_team_tricodes_to_ids, self_team_ids_to_tricodes,
                           http_cache>>
       ELSE /\ UpdateTeamDictionaries(r)
            /\ IF ~DictHas(self_team_tricodes_to_ids'.d, Upper(team))
               THEN call' = [NoGamesCall EXCEPT !.op = "gameLeaders", !.team = team,
                                                !.outcome = "KeyError: team_tricode"]
               ELSE LET team_id == DictGet(self_team_tricodes_to_ids'.d, Upper(team))
                        game == FindGameInProgress(scoreboard, team_id)
                        c == [NoGamesCall EXCEPT
                                 !.op = "gameLeaders", !.team = team,
                                 !.team_id = team_id, !.scoreboard = scoreboard,
                                 !.game = game]
                    IN  call' = IF game = <<>>
                                THEN [c EXCEPT !.outcome =
                                         "ValueError: not currently playing"]
                                ELSE [c EXCEPT !.stage = "running",
                                               !.box_score = box_score]
    /\ UNCHANGED <<self_person_ids, threadVars, processVars>>

\* _extractLeadersFromBoxScore / _extractGameLeadersStats: the next call of
\* playerFullName (r: the outcome of its fetch); after the last one, lines
\* 124-126 set leaders['final'] and return
ExtractGameLeadersStep(r) ==
    /\ call.op = "gameLeaders"
    /\ call.stage = "running"
    /\ LET ids == LeaderIds(call.box_score)
           person_id == ids[Len(call.names) + 1]
       IN  /\ FetchPersonIDdict(r)
           /\ IF DictHas(self_person_ids'.d, person_id)
              THEN LET names == Append(call.names,
                                       DictGet(self_person_ids'.d, person_id))
                       last == Len(names) = Len(ids)
                   IN  call' = [call EXCEPT
                                   !.names = names,
                                   !.stage = IF last THEN "done" ELSE "running",
                                   !.outcome = IF last THEN "ok" ELSE "none",
                                   !.final = IF last THEN call.game[1].ended
                                             ELSE FALSE]
              ELSE call' = [call EXCEPT !.stage = "done",
                                        !.outcome = "KeyError: person_id"]
    /\ UNCHANGED <<self_team_tricodes_to_ids, self_team_ids_to_tricodes,
                   threadVars, processVars>>

GamesTeamArgs == {"LAL", "GSW", "BOS"}

NextGames ==
    \/ \E team \in GamesTeamArgs, scoreboard \in ScoreboardDocs :
          \E r \in GetJSONOutcomes("teams", {TeamDocA, TeamDocC}) :
              IsTeamPlaying(team, r, scoreboard)
    \/ \E team \in GamesTeamArgs, scoreboard \in ScoreboardDocs,
          box_score \in BoxScoreDocs :
          \E r \in GetJSONOutcomes("teams", {TeamDocA, TeamDocC}) :
              GameLeaders(team, r, scoreboard, box_score)
    \/ \E r \in GetJSONOutcomes("leagueRosterPlayers", PlayerDocs) :
          ExtractGameLeadersStep(r)

SpecGames == InitGames /\ [][NextGames]_vars

\* the team with this id is at home or away in the scoreboard entry g
Involves(g, team_id) == g.hTeam.teamId = team_id \/ g.vTeam.teamId = team_id

\* C8: isTeamPlaying(T) returns, for every T of the team list, and returns
\* True exactly when the scoreboard has a game with a non-zero current period
\* in which T is the home or the away team.
C8_IsTeamPlayingIffGameStarted ==
    call.op = "isTeamPlaying"
        => /\ call.outcome = "ok"
                <=> DictHas(self_team_tricodes_to_ids.d, call.team)
           /\ call.outcome = "ok"
                => (call.playing
                      <=> \E i \in 1..Len(call.scoreboard) :
                             /\ call.scoreboard[i].period.current # 0
                             /\ Involves(call.scoreboard[i],
                                         DictGet(self_team_tricodes_to_ids.d,
                                                 call.team)))

\* The scoreboard has one game not yet started and one in its second period:
\* BOS, of the first, is not playing.
C8_Witness ==
    /\ call.op = "isTeamPlaying"
    /\ call.outcome = "ok"
    /\ call.team = "BOS"
    /\ ~call.playing
    /\ Len(call.scoreboard) = 2
    /\ call.scoreboard[1].period.current = 0
    /\ call.scoreboard[2].period.current = 2
    /\ Involves(call.scoreboard[1], call.team_id)

GameLeadersResolved ==
    /\ call.op = "gameLeaders"
    /\ call.stage = "done"
    /\ call.outcome \notin {"ValueError: Invalid team value", "KeyError: team_tricode"}

\* C10 as stated: gameLeaders(T) fails with "not currently playing" exactly
\* when the scoreboard has no game with a non-zero period, not yet final,
\* that involves T.
C10_FinalGameIsNotLive ==
    GameLeadersResolved
        => (call.outcome = "ValueError: not currently playing"
              <=> ~\E i \in 1..Len(call.scoreboard) :
                      /\ call.scoreboard[i].period.current # 0
                      /\ call.scoreboard[i].statusNum # 3
                      /\ Involves(call.scoreboard[i], call.team_id))

\* the scoreboard entries with a non-zero period that involve the team
StartedGames(scoreboard, team_id) ==
    {i \in 1..Len(scoreboard) :
        scoreboard[i].period.current # 0 /\ Involves(scoreboard[i], team_id)}

\* C10, amended: gameLeaders(T) fails with "not currently playing" exactly
\* when the scoreboard has no game with a non-zero current period that
\* involves T, final or not; and a returned final flag is the final status
\* (statusNum = 3) of the first such game of the scoreboard.
C10_NotPlayingIffNoStartedGame ==
    GameLeadersResolved
        => /\ call.outcome = "ValueError: not currently playing"
                <=> StartedGames(call.scoreboard, call.team_id) = {}
           /\ call.outcome = "ok"
                => \E i \in StartedGames(call.scoreboard, call.team_id) :
                      /\ \A j \in StartedGames(call.scoreboard, call.team_id) : i <= j
                      /\ call.final = (call.scoreboard[i].statusNum = 3)

\* gameLeaders has returned the leaders, flagged final, of a team all of
\* whose started games on the scoreboard are over.
C10_Witness ==
    /\ call.op = "gameLeaders"
    /\ call.outcome = "ok"
    /\ call.final
    /\ \A i \in StartedGames(call.scoreboard, call.team_id) :
          call.scoreboard[i].statusNum = 3

-----------------------------------------------------------------------------
(* The public operations and their arguments *)

DIVISIONS == {"southeast", "atlantic", "central", "southwest", "pacific", "northwest"}

\* an entry of json['league']['standard']['teams'] with every field that
\* _extractTeamRecord reads
StandingsEntry(teamId, win, loss) ==
    [teamId |-> teamId, win |-> win, loss |-> loss,
     homeWin |-> win, homeLoss |-> "0", awayWin |-> "0", awayLoss |-> loss,
     lastTenWin |-> win, lastTenLoss |-> loss,
     confRank |-> "2", divRank |-> "1", streak |-> "1", isWinStreak |-> TRUE,
     gamesBehind |-> "2.5", winPct |-> ".750"]

\* json['league']['standard']['teams'] of the standings document; the entry
\* of the last document has the team id and the totals only
StandingsTeamsDocs ==
    {<<StandingsEntry(2, "1", "3"), StandingsEntry(1, "3", "1")>>,
     <<StandingsEntry(2, "1", "3")>>,
     <<[teamId |-> 1, win |-> "3", loss |-> "1"]>>}

\* json['league']['standard']['conference'] of the division standings
\* document, the divisions in the order of the document
DivisionStandingsDocs ==
    {<<[conference |-> "west", division |-> "pacific",
        teams |-> <<[teamId |-> 1, divGamesBehind |-> "0", divRank |-> "1"],
                    [teamId |-> 2, divGamesBehind |-> "2.5", divRank |-> "2"]>>],
       [conference |-> "east", division |-> "atlantic",
        teams |-> <<[teamId |-> 3, divGamesBehind |-> "0", divRank |-> "1"]>>]>>,
     <<[conference |-> "west", division |-> "pacific", teams |-> <<>>]>>}

\* division_filter=None
NoDivisionFilter == [none |-> TRUE, d |-> ""]

NoParamsCall ==
    [op |-> "none", stage |-> "done", team |-> "", outcome |-> "none",
     division_filter |-> NoDivisionFilter, json |-> <<>>, names |-> <<>>,
     result |-> <<>>]

InitParams ==
    /\ InitCaches
    /\ InitThreads
    /\ call = NoParamsCall
    /\ stat_order = StatCategoriesAsWritten

\* _fetchTeamStandingsEntry(team_id) on the fetched list of teams: <<>> for
\* None (the loop ends without a return), else the first entry of the team
FetchTeamStandingsEntry(teams, team_id) ==
    LET hits == {i \in 1..Len(teams) : teams[i].teamId = team_id}
    IN  IF hits = {} THEN <<>>
        ELSE <<teams[CHOOSE i \in hits : \A j \in hits : i <= j]>>

\* int(s) for the decimal strings of the documents
ToInt(s) ==
    CASE s = "0" -> 0 [] s = "1" -> 1 [] s = "2" -> 2 [] s = "3" -> 3

\* float(s) for the decimal strings of the documents, as <<numerator,
\* denominator>>
ToFloat(s) ==
    CASE s = "0" -> <<0, 1>> [] s = "2.5" -> <<5, 2>> [] s = ".750" -> <<3, 4>>

\* the keys that _extractTeamRecord subscripts
TeamRecordFields ==
    {"win", "loss", "homeWin", "homeLoss", "awayWin", "awayLoss", "lastTenWin",
     "lastTenLoss", "confRank", "divRank", "streak", "isWinStreak",
     "gamesBehind", "winPct"}

\* _extractTeamRecord(e) for an entry with all its keys
ExtractTeamRecord(e) ==
    [total |-> [wins |-> ToInt(e.win), loses |-> ToInt(e.loss)],
     home |-> [wins |-> ToInt(e.homeWin), loses |-> ToInt(e.homeLoss)],
     away |-> [wins |-> ToInt(e.awayWin), loses |-> ToInt(e.awayLoss)],
     last_ten |-> [wins |-> ToInt(e.lastTenWin), loses |-> ToInt(e.lastTenLoss)],
     conference_rank |-> ToInt(e.confRank),
     division_rank |-> ToInt(e.divRank),
     streak |-> [games |-> ToInt(e.streak), is_winning |-> e.isWinStreak],
     games_behind |-> ToFloat(e.gamesBehind),
     win_percentage |-> ToFloat(e.winPct)]

\* teamRecord(team): the tricode is tested in upper case and looked up as
\* given; _extractTeamRecord subscripts the entry, be it None (TypeError) or
\* without one of the keys (KeyError)
TeamRecord(team, r, teams) ==
    /\ call.stage = "done"
    /\ LET c == [NoParamsCall EXCEPT !.op = "teamRecord", !.team = team,
                                     !.json = teams]
       IN  IF ~IsTriCodeValid(team)
           THEN /\ call' = [c EXCEPT !.outcome = "ValueError: Invalid team value"]
                /\ UNCHANGED <<self_team_tricodes_to_ids, self_team_ids_to_tricodes,
                               http_cache>>
           ELSE /\ UpdateTeamDictionaries(r)
                /\ IF ~DictHas(self_team_tricodes_to_ids'.d, team)
                   THEN call' = [c EXCEPT !.outcome = "KeyError: team_tricode"]
                   ELSE LET e == FetchTeamStandingsEntry(
                                     teams,
                                     DictGet(self_team_tricodes_to_ids'.d, team))
                        IN  call' =
                              IF e = <<>>
                              THEN [c EXCEPT !.outcome = "TypeError"]
                              ELSE IF ~(TeamRecordFields \subseteq DOMAIN e[1])
                              THEN [c EXCEPT !.outcome = "KeyError: entry key"]
                              ELSE [c EXCEPT !.outcome = "ok",
                                             !.result = <<ExtractTeamRecord(e[1])>>]
    /\ UNCHANGED <<self_person_ids, threadVars, processVars>>

\* gameTextNugget(team): line 132 calls a method the class does not have
GameTextNugget(team) ==
    /\ call.stage = "done"
    /\ call' = [NoParamsCall EXCEPT !.op = "gameTextNugget", !.team = Upper(team),
                                    !.outcome = "AttributeError"]
    /\ UNCHANGED <<cacheVars, threadVars, processVars>>

RECURSIVE DivisionTeamIds(_, _)
\* the team ids of the first n divisions of the document, in the order in
\* which _extractDivisionStandings calls _teamTricode on them
DivisionTeamIds(standings_json, n) ==
    IF n = 0 THEN <<>>
    ELSE DivisionTeamIds(standings_json, n - 1)
            \o [i \in 1..Len(standings_json[n].teams) |->
                    standings_json[n].teams[i].teamId]

\* the list of a division with the teams in reverse order
DivisionStandingsOf_Reversed(standings_json, names, n) ==
    LET before == Len(DivisionTeamIds(standings_json, n - 1))
        teams == standings_json[n].teams
    IN  [i \in 1..Len(teams) |->
            [name |-> names[before + Len(teams) + 1 - i],
             games_behind |-> ToFloat(teams[Len(teams) + 1 - i].divGamesBehind),
             rank |-> ToInt(teams[Len(teams) + 1 - i].divRank)]]

\* standings[conference][division] of the n-th division of the document,
\* given the names of all teams
DivisionStandingsOf(standings_json, names, n) ==
    LET before == Len(DivisionTeamIds(standings_json, n - 1))
    IN  [i \in 1..Len(standings_json[n].teams) |->
            [name |-> names[before + i],
             games_behind |-> ToFloat(standings_json[n].teams[i].divGamesBehind),
             rank |-> ToInt(standings_json[n].teams[i].divRank)]]

\* divisionStandings, lines 154-161, once the standings are extracted
DivisionStandingsReturn(c, names) ==
    LET standings_json == c.json
        hits == {n \in 1..Len(standings_json) :
                    standings_json[n].division = c.division_filter.d}
        standings == [n \in 1..Len(standings_json) |->
                         [conference |-> standings_json[n].conference,
                          division |-> standings_json[n].division,
                          teams |-> DivisionStandingsOf(standings_json, names, n)]]
    IN  IF c.division_filter.none
        THEN [c EXCEPT !.stage = "done", !.outcome = "ok", !.names = names,
                       !.result = standings]
        ELSE IF hits = {}
        THEN [c EXCEPT !.stage = "done", !.names = names,
                       !.outcome = "ValueError: Invalid division"]
        ELSE [c EXCEPT !.stage = "done", !.outcome = "ok", !.names = names,
                       !.result = standings[CHOOSE n \in hits :
                                               \A m \in hits : n <= m].teams]

\* divisionStandings(division_filter): the fetch of standings_json and the
\* start of _extractDivisionStandings
DivisionStandings(division_filter, standings_json) ==
    /\ call.stage = "done"
    /\ LET c == [NoParamsCall EXCEPT !.op = "divisionStandings",
                                     !.division_filter = division_filter,
                                     !.json = standings_json,
                                     !.stage = "running"]
       IN  call' = IF DivisionTeamIds(standings_json, Len(standings_json)) = <<>>
                   THEN DivisionStandingsReturn(c, <<>>)
                   ELSE c
    /\ UNCHANGED <<cacheVars, threadVars, processVars>>

\* _extractDivisionStandings: the next call of _teamTricode (r: the outcome
\* of its fetch); after the last one the filter is applied
ExtractDivisionStandingsStep(r) ==
    /\ call.op = "divisionStandings"
    /\ call.stage = "running"
    /\ LET ids == DivisionTeamIds(call.json, Len(call.json))
           team_id == ids[Len(call.names) + 1]
       IN  /\ UpdateTeamDictionaries(r)
           /\ IF DictHas(self_team_ids_to_tricodes'.d, team_id)
              THEN LET names == Append(call.names,
                                       DictGet(self_team_ids_to_tricodes'.d, team_id))
                   IN  call' = IF Len(names) = Len(ids)
                               THEN DivisionStandingsReturn(call, names)
                               ELSE [call EXCEPT !.names = names]
              ELSE call' = [call EXCEPT !.stage = "done",
                                        !.outcome = "KeyError: team_id"]
    /\ UNCHANGED <<self_person_ids, threadVars, processVars>>

ParamsTeamArgs == {"LAL", "lal", "XXX"}

ParamsScoreboardDocs == {<<>>, <<Game("g2", "LAL", 1, "GSW", 2, 2, 2)>>}

ParamsLeadersDoc == [c \in STAT_CATEGORIES |-> LeadersListA]

NextParams ==
    \/ \E team \in ParamsTeamArgs :
          \E r \in GetJSONOutcomes("teams", {TeamDocA}) :
              TeamLeaders(team, r, ParamsLeadersDoc)
    \/ \E r \in GetJSONOutcomes("leagueRosterPlayers", PlayerDocs) :
          ExtractTeamLeadersLoop(r)
    \/ \E team \in ParamsTeamArgs, teams \in StandingsTeamsDocs :
          \E r \in GetJSONOutcomes("teams", {TeamDocA}) :
              TeamRecord(team, r, teams)
    \/ \E team \in ParamsTeamArgs, scoreboard \in ParamsScoreboardDocs,
          box_score \in BoxScoreDocs :
          \E r \in GetJSONOutcomes("teams", {TeamDocA}) :
              GameLeaders(team, r, scoreboard, box_score)
    \/ \E r \in GetJSONOutcomes("leagueRosterPlayers", PlayerDocs) :
          ExtractGameLeadersStep(r)
    \/ \E team \in ParamsTeamArgs : GameTextNugget(team)
    \/ \E team \in ParamsTeamArgs, scoreboard \in ParamsScoreboardDocs :
          \E r \in GetJSONOutcomes("teams", {TeamDocA}) :
              IsTeamPlaying(team, r, scoreboard)
    \/ \E division_filter \in {NoDivisionFilter, Some("pacific"), Some("midwest")},
          standings_json \in DivisionStandingsDocs :
          DivisionStandings(division_filter, standings_json)
    \/ \E r \in GetJSONOutcomes("teams", {TeamDocA, TeamDocC}) :
          ExtractDivisionStandingsStep(r)

SpecParams == InitParams /\ [][NextParams]_vars

\* C9: a finished teamLeaders, teamRecord, gameLeaders, gameTextNugget or
\* isTeamPlaying whose tricode is, in upper case, not one of the 30 codes has
\* failed with "Invalid team value", and a finished divisionStandings whose
\* division name is not one of the six has failed with "Invalid division".
C9_InvalidParameterOnly ==
    call.stage = "done"
        => /\ (/\ call.op \in {"teamLeaders", "teamRecord", "gameLeaders",
                               "gameTextNugget", "isTeamPlaying"}
               /\ Upper(call.team) \notin TEAM_TRICODES)
                 => call.outcome = "ValueError: Invalid team value"
           /\ (/\ call.op = "divisionStandings"
               /\ ~call.division_filter.none
               /\ call.division_filter.d \notin DIVISIONS)
                 => call.outcome = "ValueError: Invalid division"

-----------------------------------------------------------------------------
(* playerFullName under concurrent callers *)

\* the person ids of a player list
PersonIdsOf(doc) == {doc[i].personId : i \in 1..Len(doc)}

\* C11: a call of _fetchPersonIDdict that is about to return the stored
\* mapping (line 382) returns one that resolves every person id of the
\* document it fetched, so that playerFullName fails only for an id absent
\* from the fetched document.
C11_FetchedIdsAreResolved ==
    \A t \in Threads :
        pc[t] = "person_return_valid"
            => \A person_id \in PersonIdsOf(json[t]) :
                   DictHas(self_person_ids.d, person_id)

-----------------------------------------------------------------------------
(* Documents that lack what an extractor reads *)

\* C12: a finished teamRecord whose tricode was resolved to an id, and whose
\* standings document has no entry of that id or a first entry of that id
\* without one of the keys read, has ended in the MalformedResponse outcome.
C12_LookupFailureIsMalformedResponse ==
    (/\ call.op = "teamRecord"
     /\ call.stage = "done"
     /\ call.outcome \notin {"ValueError: Invalid team value",
                             "KeyError: team_tricode"})
        => LET e == FetchTeamStandingsEntry(
                        call.json,
                        DictGet(self_team_tricodes_to_ids.d, call.team))
           IN  (e = <<>> \/ ~(TeamRecordFields \subseteq DOMAIN e[1]))
                   => call.outcome = "MalformedResponse"

-----------------------------------------------------------------------------
(* Endpoint URLs.  A string is the sequence of its parts: the braces "{",  *)
(* "}", "{{", "}}", the interval markers "10s" and "15m", and any other    *)
(* run of characters.                                                       *)

API_SERVER == <<"https://data.nba.net">>

RECURSIVE Replace(_, _, _)
\* string.replace(old, new) for a part old
Replace(string, old, new) ==
    IF string = <<>> THEN <<>>
    ELSE <<IF Head(string) = old THEN new ELSE Head(string)>>
            \o Replace(Tail(string), old, new)

\* _doubleBracketToSingle(string)
DoubleBracketToSingle(string) == Replace(Replace(string, "{{", "{"), "}}", "}")


\* _15MinMaxAgeLink(link)
FifteenMinMaxAgeLink(link) == Replace(link, "10s", "15m")

\* _addBaseURL(path)
AddBaseURL(path) == API_SERVER \o path

RECURSIVE Format(_, _)
\* string.format(**kwargs), the values being strings; "{{" and "}}" stand
\* for one brace
Format(string, kwargs) ==
    IF string = <<>> THEN <<>>
    ELSE IF Head(string) = "{"
         THEN kwargs[string[2]] \o Format(SubSeq(string, 4, Len(string)), kwargs)
    ELSE IF Head(string) = "{{" THEN <<"{">> \o Format(Tail(string), kwargs)
    ELSE IF Head(string) = "}}" THEN <<"}">> \o Format(Tail(string), kwargs)
    ELSE <<Head(string)>> \o Format(Tail(string), kwargs)

\* the links of a bootstrap document whose paths start with prefix, with the
\* given template of the player list
Links(prefix, roster) ==
    [todayScoreboard |-> prefix \o <<"/prod/v1/20170101/scoreboard.json">>,
     leagueRosterPlayers |-> roster,
     teams |-> prefix \o <<"/prod/v1/2016/teams.json">>,
     teamLeaders |-> prefix \o <<"/prod/v1/2016/teams/", "{{", "teamUrlCode", "}}",
                                 "/leaders.json">>,
     leagueUngroupedStandings |-> prefix \o <<"/prod/v1/current/standings_all.json">>,
     boxscore |-> prefix \o <<"/prod/v1/", "{{", "gameDate", "}}", "/",
                              "{{", "gameId", "}}", "_boxscore.json">>,
     leagueConfStandings |-> prefix \o <<"/prod/v1/current/standings_conference.json">>,
     leagueDivStandings |-> prefix \o <<"/prod/v1/current/standings_division.json">>]

\* today.json: paths under the short interval, and paths with a player list
\* under the 15-minute interval whose season is a placeholder
TodayDocs ==
    {[anchorDate |-> "20170101",
      links |-> Links(<<"/data/", "10s">>,
                      <<"/data/", "10s", "/prod/v1/2016/players.json">>)],
     [anchorDate |-> "20170102",
      links |-> Links(<<"/data/", "10s">>,
                      <<"/data/", "15m", "/league/", "{{", "season", "}}",
                        "/roster.json">>)]}

\* _todayJSONLink(endpoint) on the fetched bootstrap document
TodayJSONLink(today, endpoint) == today.links[endpoint]

\* the URL builders, given the bootstrap document that their call of
\* _todayJSONLink fetched
ScoreboardURL(today) == AddBaseURL(TodayJSONLink(today, "todayScoreboard"))

PlayerListURL(today) ==
    AddBaseURL(FifteenMinMaxAgeLink(TodayJSONLink(today, "leagueRosterPlayers")))

TeamListURL(today) == AddBaseURL(FifteenMinMaxAgeLink(TodayJSONLink(today, "teams")))

TeamLeadersURL(today, team_id) ==
    LET team_leaders_URL ==
            Format(DoubleBracketToSingle(TodayJSONLink(today, "teamLeaders")),
                   [teamUrlCode |-> team_id])
    IN  AddBaseURL(FifteenMinMaxAgeLink(team_leaders_URL))

StandingsURL(today) ==
    AddBaseURL(FifteenMinMaxAgeLink(TodayJSONLink(today, "leagueUngroupedStandings")))

-----------------------------------------------------------------------------
(* The public operations request by request: every URL is built from a     *)
(* bootstrap document requested for it, then the endpoint is requested.    *)

\* str(teamId) of the two teams of the team list
LAL_ID == <<"1610612747">>

GSW_ID == <<"16", "10s", "44">>

NoTodayCall ==
    [op |-> "none", stage |-> "done", endpoint |-> "", team |-> "",
     person_id |-> 0, outcome |-> "none", today_requests |-> 0,
     link |-> <<>>, url |-> <<>>, team_id |-> <<>>,
     leaders_json |-> [c \in STAT_CATEGORIES |-> <<>>], leaders |-> <<>>,
     result |-> <<>>]

InitToday ==
    /\ self_person_ids = NoneValue
    /\ self_team_ids_to_tricodes = NoneValue
    /\ self_team_tricodes_to_ids = NoneValue
    /\ http_cache = [e \in Endpoints \cup {"today"} |-> [none |-> TRUE, body |-> <<>>]]
    /\ InitThreads
    /\ call = NoTodayCall
    /\ stat_order = StatCategoriesAsWritten

\* the call of a public operation up to its first URL
TodayStart(op, team, person_id, endpoint) ==
    [NoTodayCall EXCEPT !.op = op, !.team = team, !.person_id = person_id,
                        !.stage = "url", !.endpoint = endpoint]

\* playerFullName(person_id), up to _playerListURL
TodayPlayerFullName(person_id) ==
    /\ call.stage = "done"
    /\ call' = TodayStart("playerFullName", "", person_id, "leagueRosterPlayers")
    /\ UNCHANGED <<cacheVars, threadVars, processVars>>

\* isTeamPlaying(team), up to _teamListURL
TodayIsTeamPlaying(team) ==
    /\ call.stage = "done"
    /\ call' = TodayStart("isTeamPlaying", team, 0, "teams")
    /\ UNCHANGED <<cacheVars, threadVars, processVars>>

\* teamRecord(team), lines 103-106: the test of the tricode, up to
\* _teamListURL
TodayTeamRecord(team) ==
    /\ call.stage = "done"
    /\ call' = IF IsTriCodeValid(team)
               THEN TodayStart("teamRecord", team, 0, "teams")
               ELSE [NoTodayCall EXCEPT !.op = "teamRecord", !.team = team,
                                        !.outcome = "ValueError: Invalid team value"]
    /\ UNCHANGED <<cacheVars, threadVars, processVars>>

\* teamLeaders(team), lines 94-96: _parseTeamTricode, up to _teamListURL
TodayTeamLeaders(team) ==
    /\ call.stage = "done"
    /\ call' = IF IsTriCodeValid(Upper(team))
               THEN TodayStart("teamLeaders", Upper(team), 0, "teams")
               ELSE [NoTodayCall EXCEPT !.op = "teamLeaders", !.team = team,
                                        !.outcome = "ValueError: Invalid team value"]
    /\ UNCHANGED <<cacheVars, threadVars, processVars>>

\* the URL of the endpoint, built from the bootstrap document today
EndpointURL(endpoint, today, team_id) ==
    CASE endpoint = "leagueRosterPlayers" -> PlayerListURL(today)
      [] endpoint = "teams" -> TeamListURL(today)
      [] endpoint = "teamLeaders" -> TeamLeadersURL(today, team_id)
      [] endpoint = "leagueUngroupedStandings" -> StandingsURL(today)
      [] endpoint = "todayScoreboard" -> ScoreboardURL(today)

\* _todayJSONLink in the URL builder of the pending endpoint: the request of
\* the bootstrap document (r: its outcome), and the URL built from it
TodayJSONLinkStep(r) ==
    /\ call.stage = "url"
    /\ http_cache' = [http_cache EXCEPT !["today"] = r.store]
    /\ call' = [call EXCEPT
                   !.today_requests = @ + 1,
                   !.link = TodayJSONLink(r.json, call.endpoint),
                   !.url = EndpointURL(call.endpoint, r.json, call.team_id),
                   !.stage = "get"]
    /\ UNCHANGED <<self_person_ids, self_team_ids_to_tricodes,
                   self_team_tricodes_to_ids, threadVars, processVars>>

\* _extractTeamLeaders, lines 228-238, between two calls of playerFullName:
\* the return after the last category, or field = json[category][0] of the
\* next one
TodayLeadersNext(c) ==
    IF Len(c.leaders) = Len(stat_order)
    THEN [c EXCEPT !.stage = "done", !.outcome = "ok"]
    ELSE IF c.leaders_json[stat_order[Len(c.leaders) + 1]] = <<>>
    THEN [c EXCEPT !.stage = "done", !.outcome = "IndexError"]
    ELSE [c EXCEPT !.stage = "url", !.endpoint = "leagueRosterPlayers"]

\* _updateTeamDictionaries after _teamListURL, and the lookup of _teamID
TodayGetTeams(r) ==
    /\ call.stage = "get"
    /\ call.endpoint = "teams"
    /\ UpdateTeamDictionaries(r)
    /\ call' = IF ~DictHas(self_team_tricodes_to_ids'.d, call.team)
               THEN [call EXCEPT !.stage = "done",
                                 !.outcome = "KeyError: team_tricode"]
               ELSE [call EXCEPT
                        !.team_id = DictGet(self_team_tricodes_to_ids'.d, call.team),
                        !.stage = "url",
                        !.endpoint =
                            CASE call.op = "teamRecord" -> "leagueUngroupedStandings"
                              [] call.op = "teamLeaders" -> "teamLeaders"
                              [] call.op = "isTeamPlaying" -> "todayScoreboard"]
    /\ UNCHANGED <<self_person_ids, threadVars, processVars>>

\* _fetchTeamStandingsEntry after _standingsURL, and _extractTeamRecord
TodayGetStandings(teams) ==
    /\ call.stage = "get"
    /\ call.endpoint = "leagueUngroupedStandings"
    /\ LET e == FetchTeamStandingsEntry(teams, call.team_id)
       IN  call' = IF e = <<>>
                   THEN [call EXCEPT !.stage = "done", !.outcome = "TypeError"]
                   ELSE [call EXCEPT !.stage = "done", !.outcome = "ok",
                                     !.result = <<ExtractTeamRecord(e[1])>>]
    /\ UNCHANGED <<cacheVars, threadVars, processVars>>

\* _todayGames after _scoreboardURL, and the search of _findGameInProgress
TodayGetScoreboard(scoreboard) ==
    /\ call.stage = "get"
    /\ call.endpoint = "todayScoreboard"
    /\ call' = [call EXCEPT !.stage = "done", !.outcome = "ok",
                            !.result = FindGameInProgress(scoreboard, call.team_id)]
    /\ UNCHANGED <<cacheVars, threadVars, processVars>>

\* _fetchTeamLeaders after _teamLeadersURL, and the start of
\* _extractTeamLeaders
TodayGetTeamLeaders(leaders_json) ==
    /\ call.stage = "get"
    /\ call.endpoint = "teamLeaders"
    /\ call' = TodayLeadersNext([call EXCEPT !.leaders_json = leaders_json])
    /\ UNCHANGED <<cacheVars, threadVars, processVars>>

\* _fetchPersonIDdict after _playerListURL, and the lookup of playerFullName
TodayGetPlayerList(r) ==
    /\ call.stage = "get"
    /\ call.endpoint = "leagueRosterPlayers"
    /\ FetchPersonIDdict(r)
    /\ LET person_id ==
               IF call.op = "playerFullName" THEN call.person_id
               ELSE call.leaders_json[stat_order[Len(call.leaders) + 1]][1].personId
       IN  IF ~DictHas(self_person_ids'.d, person_id)
           THEN call' = [call EXCEPT !.stage = "done",
                                     !.outcome = "KeyError: person_id"]
           ELSE IF call.op = "playerFullName"
           THEN call' = [call EXCEPT !.stage = "done", !.outcome = "ok",
                                     !.result = <<DictGet(self_person_ids'.d,
                                                          person_id)>>]
           ELSE LET category == stat_order[Len(call.leaders) + 1]
                    field == call.leaders_json[category][1]
                IN  call' = TodayLeadersNext(
                               [call EXCEPT !.leaders =
                                   Append(@, [category |-> category,
                                              player_name |->
                                                  DictGet(self_person_ids'.d,
                                                          person_id),
                                              value |-> field.value])])
    /\ UNCHANGED <<self_team_tricodes_to_ids, self_team_ids_to_tricodes,
                   threadVars, processVars>>

TodayTeamArgs == {"LAL", "Gsw", "XXX"}

NextToday ==
    \/ \E person_id \in {1, 2} : TodayPlayerFullName(person_id)
    \/ \E team \in TodayTeamArgs : TodayIsTeamPlaying(team)
    \/ \E team \in TodayTeamArgs : TodayTeamRecord(team)
    \/ \E team \in TodayTeamArgs : TodayTeamLeaders(team)
    \/ \E r \in GetJSONOutcomes("today", TodayDocs) : TodayJSONLinkStep(r)
    \/ \E r \in GetJSONOutcomes(
                "teams",
                {<<[tricode |-> "LAL", teamId |-> LAL_ID, isNBAFranchise |-> TRUE],
                   [tricode |-> "GSW", teamId |-> GSW_ID, isNBAFranchise |-> TRUE]>>}) :
          TodayGetTeams(r)
    \/ \E teams \in {<<StandingsEntry(GSW_ID, "1", "3"), StandingsEntry(LAL_ID, "3", "1")>>,
                    <<StandingsEntry(GSW_ID, "1", "3")>>} :
          TodayGetStandings(teams)
    \/ \E scoreboard \in
             {<<>>, <<Game("g1", "MIA", <<"1610612748">>, "GSW", GSW_ID, 0, 1)>>,
              <<Game("g2", "LAL", LAL_ID, "GSW", GSW_ID, 2, 2)>>} :
          TodayGetScoreboard(scoreboard)
    \/ \E leaders_json \in {ParamsLeadersDoc} : TodayGetTeamLeaders(leaders_json)
    \/ \E r \in GetJSONOutcomes("leagueRosterPlayers", PlayerDocs) :
          TodayGetPlayerList(r)

SpecToday == InitToday /\ [][NextToday]_vars

\* C13: a public operation that has returned has requested the bootstrap
\* document exactly once.
C13_OneBootstrapRequestPerCall ==
    (call.op # "none" /\ call.stage = "done" /\ call.outcome = "ok")
        => call.today_requests = 1

\* the link with its short-interval marker rewritten and then its
\* placeholders replaced by the values as supplied
RewrittenThenFilled(link, kwargs) ==
    Format(DoubleBracketToSingle(Replace(link, "10s", "15m")), kwargs)

C15_NoBraceInURL ==
    call.stage = "get"
        => \A i \in 1..Len(call.url) : call.url[i] \notin {"{", "}", "{{", "}}"}

-----------------------------------------------------------------------------
(* The plugin's formatting helpers *)

MaxNumber == 120

InitFormat ==
    /\ InitCaches
    /\ InitThreads
    /\ call = [op |-> "none", number |-> 0, suffix |-> ""]
    /\ stat_order = StatCategoriesAsWritten

\* the suffix chosen by _numberToOrdinal(number)
OrdinalSuffix(number) ==
    IF 10 <= number /\ number <= 20
    THEN "th"
    ELSE CASE number % 10 = 1 -> "st"
           [] number % 10 = 2 -> "nd"
           [] number % 10 = 3 -> "rd"
           [] OTHER -> "th"

\* _numberToOrdinal(number): the number followed by the suffix
NumberToOrdinal(number) ==
    /\ call' = [op |-> "_numberToOrdinal", number |-> number,
                suffix |-> OrdinalSuffix(number)]
    /\ UNCHANGED <<cacheVars, threadVars, processVars>>

NextFormat == \E number \in 1..MaxNumber : NumberToOrdinal(number)

SpecFormat == InitFormat /\ [][NextFormat]_vars

\* the suffix of the English ordinal of a positive number
EnglishOrdinalSuffix(number) ==
    IF number % 100 \in 11..13 THEN "th"
    ELSE CASE number % 10 = 1 -> "st"
           [] number % 10 = 2 -> "nd"
           [] number % 10 = 3 -> "rd"
           [] OTHER -> "th"

\* C16: _numberToOrdinal gives every positive number the suffix of its
\* English ordinal.
C16_EnglishOrdinal ==
    call.op = "_numberToOrdinal" => call.suffix = EnglishOrdinalSuffix(call.number)

-----------------------------------------------------------------------------
(* Playoff match-ups.  The series and its extraction into a PlayoffGame    *)
(* follow the specification: a series is played one game at a time until   *)
(* one side has the wins that decide it.                                   *)

WinsToDecide == 4

\* the four series of a conference's first round before their first game
FirstRoundSeries ==
    {[top_seed |-> n, top_team |-> "T", bottom_seed |-> 9 - n, bottom_team |-> "B",
      top_wins |-> 0, bottom_wins |-> 0] : n \in 1..4}

\* the PlayoffGame of a series
PlayoffMatchUp(series) ==
    [top_seed |-> series.top_seed, top_team |-> series.top_team,
     top_wins |-> series.top_wins,
     bottom_seed |-> series.bottom_seed, bottom_team |-> series.bottom_team,
     bottom_wins |-> series.bottom_wins,
     is_completed |-> (series.top_wins = WinsToDecide
                         \/ series.bottom_wins = WinsToDecide),
     top_is_winner |-> series.top_wins = WinsToDecide,
     bottom_is_winner |-> series.bottom_wins = WinsToDecide]

InitPlayoffs ==
    /\ InitCaches
    /\ InitThreads
    /\ \E series \in FirstRoundSeries :
          call = [op |-> "none", series |-> series, m |-> PlayoffMatchUp(series),
                  teams |->
                    [top_seed |-> 0, top_team |-> [text |-> "", color |-> "none"],
                     top_wins |-> 0, bottom_seed |-> 0,
                     bottom_team |-> [text |-> "", color |-> "none"],
                     bottom_wins |-> 0]]
    /\ stat_order = StatCategoriesAsWritten

\* one more game of the series, won by the top or by the bottom team
SeriesGame(top_won) ==
    /\ call.series.top_wins < WinsToDecide
    /\ call.series.bottom_wins < WinsToDecide
    /\ call' = [call EXCEPT !.series =
                   IF top_won THEN [@ EXCEPT !.top_wins = @ + 1]
                   ELSE [@ EXCEPT !.bottom_wins = @ + 1]]
    /\ UNCHANGED <<cacheVars, threadVars, processVars>>

\* the alert given whenever the top team has three wins
PlayoffMatchUpToString_TopOnly(m) ==
    LET color(is_winner) ==
            IF m.is_completed THEN (IF is_winner THEN "green" ELSE "red")
            ELSE IF m.top_wins = 3 THEN "orange"
            ELSE "none"
    IN  [top_seed |-> m.top_seed,
         top_team |-> [text |-> m.top_team, color |-> color(m.top_is_winner)],
         top_wins |-> m.top_wins,
         bottom_seed |-> m.bottom_seed,
         bottom_team |-> [text |-> m.bottom_team, color |-> color(m.bottom_is_winner)],
         bottom_wins |-> m.bottom_wins]

\* _playoffMatchUpToString(m): the parts of the formatted string, each team
\* in bold with its colour
PlayoffMatchUpToString(m) ==
    LET color(is_winner) ==
            IF m.is_completed THEN (IF is_winner THEN "green" ELSE "red")
            ELSE IF m.top_wins = 3 /\ m.bottom_wins = 3 THEN "orange"
            ELSE "none"
    IN  [top_seed |-> m.top_seed,
         top_team |-> [text |-> m.top_team, color |-> color(m.top_is_winner)],
         top_wins |-> m.top_wins,
         bottom_seed |-> m.bottom_seed,
         bottom_team |-> [text |-> m.bottom_team, color |-> color(m.bottom_is_winner)],
         bottom_wins |-> m.bottom_wins]

\* _printablePlayoffBracket, line 306, for the match-up of the series
PrintablePlayoffBracket ==
    /\ call' = [call EXCEPT !.op = "_playoffMatchUpToString",
                            !.m = PlayoffMatchUp(call.series),
                            !.teams = PlayoffMatchUpToString(
                                          PlayoffMatchUp(call.series))]
    /\ UNCHANGED <<cacheVars, threadVars, processVars>>

NextPlayoffs ==
    \/ \E top_won \in BOOLEAN : SeriesGame(top_won)
    \/ PrintablePlayoffBracket

SpecPlayoffs == InitPlayoffs /\ [][NextPlayoffs]_vars

-----------------------------------------------------------------------------
(* Conference and division standings *)

MaxStandingsTeams == 2

\* entries of a list of teams of the standings documents: with conference
\* and with division fields
StandingsTeamEntries ==
    {[teamId |-> 1, gamesBehind |-> "0", confRank |-> "1",
      divGamesBehind |-> "0", divRank |-> "1"],
     [teamId |-> 2, gamesBehind |-> "2.5", confRank |-> "2",
      divGamesBehind |-> "2.5", divRank |-> "2"],
     [teamId |-> 3, gamesBehind |-> "2.5", confRank |-> "3",
      divGamesBehind |-> "0", divRank |-> "3"]}

StandingsTeamLists == SeqsUpTo(StandingsTeamEntries, MaxStandingsTeams)

EastTeams == <<[teamId |-> 2, gamesBehind |-> "0", confRank |-> "1",
                divGamesBehind |-> "0", divRank |-> "1"]>>

\* json['league']['standard']['conference'] of the conference standings:
\* the conferences in the order of the document
ConferenceDocs ==
    {<<[conference |-> "west", teams |-> teams],
       [conference |-> "east", teams |-> EastTeams]>> : teams \in StandingsTeamLists}

\* the same of the division standings
DivisionDocs ==
    {<<[conference |-> "west", division |-> "pacific", teams |-> teams],
       [conference |-> "east", division |-> "atlantic", teams |-> EastTeams]>> :
        teams \in StandingsTeamLists}

RECURSIVE ConferenceTeamIds(_, _)
\* the team ids of the first n conferences of the document, in the order in
\* which _extractConferenceStandings calls _teamTricode on them
ConferenceTeamIds(standings_json, n) ==
    IF n = 0 THEN <<>>
    ELSE ConferenceTeamIds(standings_json, n - 1)
            \o [i \in 1..Len(standings_json[n].teams) |->
                    standings_json[n].teams[i].teamId]

\* standings[conference] of the n-th conference of the document, given the
\* names of all teams
ConferenceStandingsOf(standings_json, names, n) ==
    LET before == Len(ConferenceTeamIds(standings_json, n - 1))
    IN  [i \in 1..Len(standings_json[n].teams) |->
            [name |-> names[before + i],
             games_behind |-> ToFloat(standings_json[n].teams[i].gamesBehind),
             rank |-> ToInt(standings_json[n].teams[i].confRank)]]

\* the return of conferenceStandings once every name is resolved
ConferenceStandingsReturn(c, names) ==
    [c EXCEPT !.stage = "done", !.outcome = "ok", !.names = names,
              !.result = [n \in 1..Len(c.json) |->
                             [conference |-> c.json[n].conference,
                              teams |-> ConferenceStandingsOf(c.json, names, n)]]]

\* conferenceStandings(): the fetch of standings_json and the start of
\* _extractConferenceStandings
ConferenceStandings(standings_json) ==
    /\ call.stage = "done"
    /\ LET c == [NoParamsCall EXCEPT !.op = "conferenceStandings",
                                     !.json = standings_json,
                                     !.stage = "running"]
       IN  call' = IF ConferenceTeamIds(standings_json, Len(standings_json)) = <<>>
                   THEN ConferenceStandingsReturn(c, <<>>)
                   ELSE c
    /\ UNCHANGED <<cacheVars, threadVars, processVars>>

\* _extractConferenceStandings: the next call of _teamTricode (r: the
\* outcome of its fetch)
ExtractConferenceStandingsStep(r) ==
    /\ call.op = "conferenceStandings"
    /\ call.stage = "running"
    /\ LET ids == ConferenceTeamIds(call.json, Len(call.json))
           team_id == ids[Len(call.names) + 1]
       IN  /\ UpdateTeamDictionaries(r)
           /\ IF DictHas(self_team_ids_to_tricodes'.d, team_id)
              THEN LET names == Append(call.names,
                                       DictGet(self_team_ids_to_tricodes'.d, team_id))
                   IN  call' = IF Len(names) = Len(ids)
                               THEN ConferenceStandingsReturn(call, names)
                               ELSE [call EXCEPT !.names = names]
              ELSE call' = [call EXCEPT !.stage = "done",
                                        !.outcome = "KeyError: team_id"]
    /\ UNCHANGED <<self_person_ids, threadVars, processVars>>

NextStandings ==
    \/ \E standings_json \in ConferenceDocs : ConferenceStandings(standings_json)
    \/ \E r \in GetJSONOutcomes("teams", {TeamDocA, TeamDocC}) :
          ExtractConferenceStandingsStep(r)
    \/ \E division_filter \in {NoDivisionFilter, Some("pacific"), Some("atlantic")},
          standings_json \in DivisionDocs :
          DivisionStandings(division_filter, standings_json)
    \/ \E r \in GetJSONOutcomes("teams", {TeamDocA, TeamDocC}) :
          ExtractDivisionStandingsStep(r)

SpecStandings == InitParams /\ [][NextStandings]_vars

\* the tricode that the team lists give a team id
TricodeOfTeamId(team_id) ==
    DictGet(BuildIdsToTricodes(TeamDocC, Len(TeamDocC)), team_id)

\* the emitted list has one entry per upstream team, the i-th with the rank
\* and the name of the i-th upstream team
SameTeamsInOrder(list, teams, rank_field) ==
    /\ Len(list) = Len(teams)
    /\ \A i \in 1..Len(teams) :
          /\ list[i].rank = ToInt(teams[i][rank_field])
          /\ list[i].name = TricodeOfTeamId(teams[i].teamId)

-----------------------------------------------------------------------------
(* Refreshes that fail *)

\* the body of a response that r.json() cannot decode
NotJSON == <<[not_json |-> TRUE]>>

\* a team list whose second entry has no teamId, and a player list whose
\* second entry has no lastName
TeamDocBad ==
    <<[tricode |-> "LAL", teamId |-> 1, isNBAFranchise |-> TRUE],
      [tricode |-> "GSW", isNBAFranchise |-> TRUE]>>

PlayerDocBad ==
    <<[personId |-> 1, firstName |-> "LeBron", lastName |-> "James"],
      [personId |-> 2, firstName |-> "Nene"]>>

\* the first entry of the team list on which the loop of lines 355-358
\* raises KeyError, 0 if there is none
FirstBadTeam(doc) ==
    LET bad == {i \in 1..Len(doc) :
                   \/ "isNBAFranchise" \notin DOMAIN doc[i]
                   \/ /\ doc[i].isNBAFranchise
                      /\ ~({"tricode", "teamId"} \subseteq DOMAIN doc[i])}
    IN  IF bad = {} THEN 0 ELSE CHOOSE i \in bad : \A j \in bad : i <= j

\* the same for the loop of lines 386-388 on the player list
FirstBadPlayer(doc) ==
    LET bad == {i \in 1..Len(doc) :
                   ~({"personId", "firstName", "lastName"} \subseteq DOMAIN doc[i])}
    IN  IF bad = {} THEN 0 ELSE CHOOSE i \in bad : \A j \in bad : i <= j

InitRefresh ==
    /\ InitCaches
    /\ InitThreads
    /\ call = [op |-> "none", outcome |-> "none", built |-> 0]
    /\ stat_order = StatCategoriesAsWritten

\* a call of _getJSON in which the GET itself raises
GetRaises(op) ==
    /\ call' = [op |-> op, outcome |-> "RequestException", built |-> 0]
    /\ UNCHANGED <<cacheVars, threadVars, processVars>>

\* the rebuild storing what it has built when an entry makes it fail
UpdateTeamDictionariesOrRaise_InPlace(r) ==
    /\ http_cache' = [http_cache EXCEPT !["teams"] = r.store]
    /\ LET bad == FirstBadTeam(r.json)
           done(outcome, built) ==
               call' = [op |-> "_updateTeamDictionaries", outcome |-> outcome,
                        built |-> built]
       IN  IF r.json = NotJSON
           THEN /\ done("ValueError: no JSON", 0)
                /\ UNCHANGED <<self_team_tricodes_to_ids, self_team_ids_to_tricodes>>
           ELSE IF TeamCopyIsValidFor(r.from_cache)
           THEN /\ done("ok", 0)
                /\ UNCHANGED <<self_team_tricodes_to_ids, self_team_ids_to_tricodes>>
           ELSE IF bad = 0
           THEN /\ done("ok", Len(r.json))
                /\ self_team_tricodes_to_ids' =
                       Some(BuildTricodeToIds(r.json, Len(r.json)))
                /\ self_team_ids_to_tricodes' =
                       Some(BuildIdsToTricodes(r.json, Len(r.json)))
           ELSE /\ done("KeyError", bad - 1)
                /\ self_team_tricodes_to_ids' = Some(BuildTricodeToIds(r.json, bad - 1))
                /\ self_team_ids_to_tricodes' = Some(BuildIdsToTricodes(r.json, bad - 1))
    /\ UNCHANGED <<self_person_ids, threadVars, processVars>>

\* _updateTeamDictionaries for the outcome r of its GET, with a body that
\* cannot be decoded or an entry without a key making it raise
UpdateTeamDictionariesOrRaise(r) ==
    /\ http_cache' = [http_cache EXCEPT !["teams"] = r.store]
    /\ LET bad == FirstBadTeam(r.json)
           done(outcome, built) ==
               call' = [op |-> "_updateTeamDictionaries", outcome |-> outcome,
                        built |-> built]
       IN  IF r.json = NotJSON
           THEN /\ done("ValueError: no JSON", 0)
                /\ UNCHANGED <<self_team_tricodes_to_ids, self_team_ids_to_tricodes>>
           ELSE IF TeamCopyIsValidFor(r.from_cache)
           THEN /\ done("ok", 0)
                /\ UNCHANGED <<self_team_tricodes_to_ids, self_team_ids_to_tricodes>>
           ELSE IF bad = 0
           THEN /\ done("ok", Len(r.json))
                /\ self_team_tricodes_to_ids' =
                       Some(BuildTricodeToIds(r.json, Len(r.json)))
                /\ self_team_ids_to_tricodes' =
                       Some(BuildIdsToTricodes(r.json, Len(r.json)))
           ELSE /\ done("KeyError", bad - 1)
                /\ UNCHANGED <<self_team_tricodes_to_ids, self_team_ids_to_tricodes>>
    /\ UNCHANGED <<self_person_ids, threadVars, processVars>>

\* _fetchPersonIDdict likewise
FetchPersonIDdictOrRaise(r) ==
    /\ http_cache' = [http_cache EXCEPT !["leagueRosterPlayers"] = r.store]
    /\ LET bad == FirstBadPlayer(r.json)
           done(outcome, built) ==
               call' = [op |-> "_fetchPersonIDdict", outcome |-> outcome,
                        built |-> built]
       IN  IF r.json = NotJSON
           THEN /\ done("ValueError: no JSON", 0)
                /\ UNCHANGED self_person_ids
           ELSE IF PersonCopyIsValidFor(r.from_cache)
           THEN /\ done("ok", 0)
                /\ UNCHANGED self_person_ids
           ELSE IF bad = 0
           THEN /\ done("ok", Len(r.json))
                /\ self_person_ids' = Some(BuildPersonIds(r.json, Len(r.json)))
           ELSE /\ done("KeyError", bad - 1)
                /\ UNCHANGED self_person_ids
    /\ UNCHANGED <<self_team_tricodes_to_ids, self_team_ids_to_tricodes,
                   threadVars, processVars>>

NextRefresh ==
    \/ \E op \in {"_updateTeamDictionaries", "_fetchPersonIDdict"} : GetRaises(op)
    \/ \E r \in GetJSONOutcomes("teams", {TeamDocA, TeamDocB, TeamDocBad, NotJSON}) :
          UpdateTeamDictionariesOrRaise(r)
    \/ \E r \in GetJSONOutcomes("leagueRosterPlayers",
                                {PlayerDocA, PlayerDocB, PlayerDocBad, NotJSON}) :
          FetchPersonIDdictOrRaise(r)

SpecRefresh == InitRefresh /\ [][NextRefresh]_vars

\* C19: a refresh that ends in an error leaves the person mapping and the
\* two team mappings as they were.
C19_FailedRefreshKeepsMappings ==
    [][call'.outcome # "ok"
          => UNCHANGED <<self_person_ids, self_team_tricodes_to_ids,
                         self_team_ids_to_tricodes>>]_vars

\* a rebuild of the team mappings has failed on the second entry of the
\* fetched list while mappings of an earlier list are stored
C19_Witness ==
    /\ call.op = "_updateTeamDictionaries"
    /\ call.outcome = "KeyError"
    /\ call.built = 1
    /\ ~self_team_tricodes_to_ids.none
    /\ self_team_tricodes_to_ids.d # BuildTricodeToIds(TeamDocBad, 1)

-----------------------------------------------------------------------------
(* Tricodes in lower case *)

\* C20: a finished teamLeaders, teamRecord or gameLeaders whose tricode
\* passes validation, and whose upper-case spelling is a key of the stored
\* tricode -> id mapping, has not failed in the tricode -> id lookup.
C20_ValidTricodeIsLookedUp ==
    (/\ call.stage = "done"
     /\ call.op \in {"teamLeaders", "teamRecord", "gameLeaders"}
     /\ IsTriCodeValid(call.team)
     /\ ~self_team_tricodes_to_ids.none
     /\ DictHas(self_team_tricodes_to_ids.d, Upper(call.team)))
        => call.outcome # "KeyError: team_tricode"

-----------------------------------------------------------------------------
(* The game-leaders command: isTeamPlaying, then gameLeaders *)

\* C21: a gameLeaders(T) that follows an isTeamPlaying(T) which returned
\* true does not fail with the error that T is not currently playing.
C21_PlayingThenGameLeaders ==
    [][(/\ call.op = "isTeamPlaying"
        /\ call.outcome = "ok"
        /\ call.playing
        /\ call'.op = "gameLeaders"
        /\ call'.team = call.team)
          => call'.outcome # "ValueError: not currently playing"]_vars

====
